---------------------------- MODULE Spec2Model ----------------------------
(***************************************************************************)
(* A model of raspa_ase: the case-insensitive dictionary helpers           *)
(* (utils/dicts.py), the simulation.input writer and the RASPA output      *)
(* parser (utils/io.py).                                                   *)
(*                                                                         *)
(* Python strings are sequences of one-character strings.  A Python dict   *)
(* is the sequence of its <<key, value>> items in insertion order.  Values *)
(* are tagged records [t, v].  Top-level dict objects live in `heap`,      *)
(* indexed by their identity; a nested dict is held by value inside the    *)
(* one dict that owns it.                                                  *)
(***************************************************************************)
EXTENDS Integers, Sequences, FiniteSets, TLC

VARIABLES
    heap,       \* the dict objects of the caller, by identity
    op,         \* the last call made: "init" before any call
    a1, a2,     \* the arguments of the last call
    ret,        \* what the last call returned
    pre,        \* the heap as it was when the last call was made
    file,       \* the text last written to the input file (VNone: no file)
    prevFile,   \* the text the call before the last one wrote
    nwrites,    \* how many times write_simulation_input was called
    rows,       \* parse_output: raspa_output.splitlines()
    data,       \* parse_output: data
    delimiters, \* parse_output: delimiters (positions in data, from 1)
    info,       \* parse_output: info
    pc,         \* parse_output: where the call is ("idle": no call)
    sec,        \* parse_output: which item of info the outer loop is at
    idx,        \* parse_output: which line of the section the inner loop is at
    sd,         \* parse_output: d, the mapping of the section being parsed
    note_index, \* parse_output: note_index
    gas_name,   \* parse_output: gas_name
    exc,        \* parse_output: the exception that ended it ("": none)
    atoms,      \* write_input: the Atoms object the calculator is set on
    args,       \* Raspa(...): the arguments other than components
    calcs       \* Raspa(...): the parameters of the calculators made so far

dictVars  == <<heap, op, a1, a2, ret, pre, file, prevFile, nwrites>>
parseVars == <<rows, data, delimiters, info, pc, sec, idx, sd, note_index,
               gas_name, exc>>
calcVars  == <<atoms, args, calcs>>
vars == <<dictVars, parseVars, calcVars>>

---------------------------------------------------------------------------
(* Bounds of the model.                                                    *)

\* Entries of one mapping handed to merge_parameters / pop_parameter.
MaxKeys == 2
\* Entries (at every depth together) of a tree handed to the writer.
MaxNodes == 4
\* Consecutive calls of write_simulation_input on one tree.
MaxWrites == 2
\* Rows of a text handed to parse_output.
MaxRows == 5
\* Lines of the section of a one-section text handed to parse_output.
MaxItems == 3
MaxSecRows == 7
MaxLines == 2
MaxAdsRows == 4

---------------------------------------------------------------------------
(* Strings.                                                                *)

UpperChars == <<"A", "B", "C", "D", "E", "F", "G", "H", "I", "J", "K", "L", "M",
                "N", "O", "P", "Q", "R", "S", "T", "U", "V", "W", "X", "Y", "Z">>
LowerChars == <<"a", "b", "c", "d", "e", "f", "g", "h", "i", "j", "k", "l", "m",
                "n", "o", "p", "q", "r", "s", "t", "u", "v", "w", "x", "y", "z">>
DigitChars == <<"0", "1", "2", "3", "4", "5", "6", "7", "8", "9">>

\* str.lower() of one character.
LowerChar(c) ==
    IF \E i \in 1..Len(UpperChars) : UpperChars[i] = c
    THEN LowerChars[CHOOSE i \in 1..Len(UpperChars) : UpperChars[i] = c]
    ELSE c

\* str.lower()
lower(s) == [i \in 1..Len(s) |-> LowerChar(s[i])]

\* `sub in s` of Python, at position i.
MatchAt(sub, s, i) ==
    /\ i + Len(sub) - 1 <= Len(s)
    /\ \A j \in 1..Len(sub) : s[i + j - 1] = sub[j]

\* `sub in s` of Python.
Contains(s, sub) == \E i \in 1..(Len(s) + 1) : MatchAt(sub, s, i)

RECURSIVE Concat(_)
\* "".join(seq of strings)
Concat(ss) == IF ss = <<>> THEN <<>> ELSE Head(ss) \o Concat(Tail(ss))

RECURSIVE JoinWith(_, _)
\* sep.join(seq of strings)
JoinWith(sep, ss) ==
    IF ss = <<>> THEN <<>>
    ELSE IF Len(ss) = 1 THEN ss[1]
    ELSE ss[1] \o sep \o JoinWith(sep, Tail(ss))

RECURSIVE SplitOn(_, _)
\* s.split(c) for a one-character separator c: the pieces between the
\* separators, empty pieces kept.
SplitOn(s, c) ==
    IF \A i \in 1..Len(s) : s[i] # c THEN <<s>>
    ELSE LET k == CHOOSE i \in 1..Len(s) :
                     s[i] = c /\ \A j \in 1..(i - 1) : s[j] # c
         IN  <<SubSeq(s, 1, k - 1)>> \o SplitOn(SubSeq(s, k + 1, Len(s)), c)

RECURSIVE NatStr(_)
\* str(n) for an int n >= 0.
NatStr(n) ==
    IF n < 10 THEN <<DigitChars[n + 1]>>
    ELSE NatStr(n \div 10) \o <<DigitChars[(n % 10) + 1]>>

sYes   == <<"Y", "e", "s">>
sNo    == <<"N", "o">>
sTrue  == <<"T", "r", "u", "e">>
sFalse == <<"F", "a", "l", "s", "e">>
sNone  == <<"N", "o", "n", "e">>
NL     == "\n"
SP     == " "
Indent == <<SP, SP, SP, SP>>

---------------------------------------------------------------------------
(* Values.                                                                 *)

VNone    == [t |-> "none", v |-> 0]
VBool(b) == [t |-> "bool", v |-> b]
VInt(n)  == [t |-> "int",  v |-> n]
VStr(s)  == [t |-> "str",  v |-> s]
VList(l) == [t |-> "list", v |-> l]
VDict(d) == [t |-> "dict", v |-> d]
VRef(id) == [t |-> "ref",  v |-> id]

\* str(x) and repr(x) of a float (of a size that is written without an
\* exponent); x.v is <<negative, integer digits, fraction digits>>.
FloatStr(x) ==
    (IF x.v[1] THEN <<"-">> ELSE <<>>) \o x.v[2] \o <<".">>
    \o (IF x.v[3] = <<>> THEN <<"0">> ELSE x.v[3])

\* repr(s) of a string: in double quotes when it holds a single quote and
\* no double quote, in single quotes otherwise, with the backslash, the
\* quote in use and the control characters escaped.
ReprStr(s) ==
    LET q == IF (\E i \in 1..Len(s) : s[i] = "'") /\ (\A i \in 1..Len(s) : s[i] # "\"")
             THEN "\"" ELSE "'"
        esc(c) == CASE c = "\\" -> <<"\\", "\\">>
                    [] c = "\n" -> <<"\\", "n">>
                    [] c = "\t" -> <<"\\", "t">>
                    [] c = "\r" -> <<"\\", "r">>
                    [] c = "\f" -> <<"\\", "x", "0", "c">>
                    [] c = q    -> <<"\\", q>>
                    [] OTHER    -> <<c>>
    IN  <<q>> \o Concat([i \in 1..Len(s) |-> esc(s[i])]) \o <<q>>

RECURSIVE ReprOf(_)
\* repr(x): what str() of a list or a dict shows of the values in it.
ReprOf(x) ==
    CASE x.t = "int"   -> NatStr(x.v)
      [] x.t = "float" -> FloatStr(x)
      [] x.t = "bool"  -> (IF x.v THEN sTrue ELSE sFalse)
      [] x.t = "str"   -> ReprStr(x.v)
      [] x.t = "list"  ->
             <<"[">> \o JoinWith(<<",", SP>>, [i \in 1..Len(x.v) |-> ReprOf(x.v[i])])
             \o <<"]">>
      [] x.t = "dict"  ->
             <<"{">> \o JoinWith(<<",", SP>>,
                         [i \in 1..Len(x.v) |->
                             ReprStr(x.v[i][1]) \o <<":", SP>> \o ReprOf(x.v[i][2])])
             \o <<"}">>
      [] OTHER         -> sNone

\* str(x): a string is itself, any other value is written as repr() does.
StrOf(x) == IF x.t = "str" THEN x.v ELSE ReprOf(x)

\* The keys of a dict, in order.
Keys(d) == [i \in 1..Len(d) |-> d[i][1]]

\* Position of the entry whose key is exactly k; 0 when there is none.
IndexOf(d, k) ==
    IF \E i \in 1..Len(d) : d[i][1] = k
    THEN CHOOSE i \in 1..Len(d) : d[i][1] = k
    ELSE 0

\* Position of the first entry whose key equals k ignoring case; 0 when
\* there is none.
IndexOfLower(d, k) ==
    IF \E i \in 1..Len(d) : lower(d[i][1]) = lower(k)
    THEN CHOOSE i \in 1..Len(d) :
            /\ lower(d[i][1]) = lower(k)
            /\ \A j \in 1..(i - 1) : lower(d[j][1]) # lower(k)
    ELSE 0

\* d[k] = x : an existing key keeps its position, a new key goes last.
DictSet(d, k, x) ==
    IF IndexOf(d, k) # 0
    THEN [d EXCEPT ![IndexOf(d, k)] = <<k, x>>]
    ELSE Append(d, <<k, x>>)

\* del d[k]
DictDel(d, k) ==
    LET i == IndexOf(d, k)
    IN  SubSeq(d, 1, i - 1) \o SubSeq(d, i + 1, Len(d))

---------------------------------------------------------------------------
(* utils/dicts.py                                                          *)

\* get_parameter(d, key, default): d_lower is built by inserting every item
\* under its lower-cased key, so of two keys equal ignoring case the later
\* one's value stays.
get_parameter(d, key, default) ==
    IF \E i \in 1..Len(d) : lower(d[i][1]) = lower(key)
    THEN d[CHOOSE i \in 1..Len(d) :
              /\ lower(d[i][1]) = lower(key)
              /\ \A j \in (i + 1)..Len(d) : lower(d[j][1]) # lower(key)][2]
    ELSE default

\* pop_parameter comparing the keys as they are, case included.
pop_parameter_exact(h, id, key) ==
    LET d == h[id]
        i == IndexOf(d, key)
    IN  IF i # 0
        THEN [heap |-> [h EXCEPT ![id] = DictDel(d, d[i][1])], ret |-> d[i][2]]
        ELSE [heap |-> h, ret |-> VNone]

\* pop_parameter(d, key) on the dict object `id` of heap h: the first item
\* whose key matches ignoring case is deleted from that object and its value
\* returned; None when no key matches.
pop_parameter(h, id, key) ==
    LET d == h[id]
        i == IndexOfLower(d, key)
    IN  IF i # 0
        THEN [heap |-> [h EXCEPT ![id] = DictDel(d, d[i][1])], ret |-> d[i][2]]
        ELSE [heap |-> h, ret |-> VNone]

\* A deepcopy that copies nothing: the same object under the same identity.
deepcopy_alias(h, id) == [heap |-> h, id |-> id]

\* deepcopy(dict1): a new object with the contents of h[id].
deepcopy(h, id) == [heap |-> Append(h, h[id]), id |-> Len(h) + 1]

\* The loop of merge_parameters without the case-insensitive search: every
\* key2 is assigned under its own casing, as dict.update does.
MergeLoop_exact(merged, dict2) ==
    LET RECURSIVE Go(_, _)
        Go(m, i) ==
            IF i > Len(dict2) THEN m
            ELSE Go(DictSet(m, dict2[i][1], dict2[i][2]), i + 1)
    IN  Go(merged, 1)

\* The loop of merge_parameters over dict2.items(): matching_key is the
\* first key of merged_dict equal to key2 ignoring case (None when there is
\* none); a truthy matching_key is assigned value2, else key2 is.
MergeLoop(merged, dict2) ==
    LET RECURSIVE Go(_, _)
        Go(m, i) ==
            IF i > Len(dict2) THEN m
            ELSE LET key2  == dict2[i][1]
                     mi    == IndexOfLower(m, key2)
                 IN  IF mi # 0 /\ m[mi][1] # <<>>
                     THEN Go(DictSet(m, m[mi][1], dict2[i][2]), i + 1)
                     ELSE Go(DictSet(m, key2, dict2[i][2]), i + 1)
    IN  Go(merged, 1)

\* merge_parameters(dict1, dict2) on the objects id1, id2 of heap h.
merge_parameters(h, id1, id2) ==
    LET c == deepcopy(h, id1)
    IN  [heap |-> [c.heap EXCEPT ![c.id] = MergeLoop(c.heap[c.id], c.heap[id2])],
         ret  |-> VRef(c.id)]

RECURSIVE convert_booleans_truthy(_)
\* convert_booleans without its isinstance(value, bool) test: every scalar
\* is replaced by "Yes" or "No" according to its truth value.
convert_booleans_truthy(d) ==
    [i \in 1..Len(d) |->
        LET x == d[i][2]
            truthy == CASE x.t = "bool" -> x.v
                        [] x.t = "int"  -> x.v # 0
                        [] x.t = "none" -> FALSE
                        [] OTHER        -> x.v # <<>>
        IN  IF x.t = "dict" THEN <<d[i][1], VDict(convert_booleans_truthy(x.v))>>
            ELSE <<d[i][1], VStr(IF truthy THEN sYes ELSE sNo)>>]

RECURSIVE convert_booleans(_)
\* convert_booleans(d): the contents of d after the call.  d is changed in
\* place: a bool value becomes the string "Yes" or "No", a dict value is
\* converted recursively, every other value (a list too) is left alone.
convert_booleans(d) ==
    [i \in 1..Len(d) |->
        LET x == d[i][2]
        IN  IF x.t = "bool" THEN <<d[i][1], VStr(IF x.v THEN sYes ELSE sNo)>>
            ELSE IF x.t = "dict" THEN <<d[i][1], VDict(convert_booleans(x.v))>>
            ELSE d[i]]

---------------------------------------------------------------------------
(* utils/io.py: the writer.                                                *)

\* _iterable_to_str(v): the items' str() joined by one space, and a newline.
iterable_to_str(v) ==
    JoinWith(<<SP>>, [i \in 1..Len(v) |-> StrOf(v[i])]) \o <<NL>>

RECURSIVE dict_to_str(_)
\* _dict_to_str(d): each item on a line indented by four spaces; a nested
\* dict's own text is appended after four more spaces.
dict_to_str(d) ==
    IF d = <<>> THEN <<>>
    ELSE LET k == d[1][1]
             x == d[1][2]
             line == IF x.t = "dict"
                     THEN Indent \o k \o <<NL>> \o Indent \o dict_to_str(x.v)
                     ELSE IF x.t = "list"
                     THEN Indent \o k \o <<SP>> \o iterable_to_str(x.v)
                     ELSE Indent \o k \o <<SP>> \o StrOf(x) \o <<NL>>
         IN  line \o dict_to_str(Tail(d))

RECURSIVE simulation_input(_)
\* The loop of write_simulation_input over parameters.items().
simulation_input(d) ==
    IF d = <<>> THEN <<>>
    ELSE LET k == d[1][1]
             x == d[1][2]
             line == IF x.t = "dict" THEN k \o <<NL>> \o dict_to_str(x.v)
                     ELSE IF x.t = "list" THEN k \o <<SP>> \o iterable_to_str(x.v)
                     ELSE k \o <<SP>> \o StrOf(x) \o <<NL>>
         IN  line \o simulation_input(Tail(d))

\* write_simulation_input(parameters, input_filepath) on the object `id`:
\* the booleans of the object are converted in place, the text is written
\* to the file, and the function ends without a return statement.
write_simulation_input(h, id) ==
    LET parameters == convert_booleans(h[id])
    IN  [heap |-> [h EXCEPT ![id] = parameters],
         file |-> VStr(simulation_input(parameters)),
         ret  |-> VNone]

---------------------------------------------------------------------------
(* utils/params.py and RaspaTemplate.write_input (calculator.py).  An      *)
(* Atoms object is a record: `empty` for Atoms(), `cell` the three lengths *)
(* of an orthorhombic cell (the distance between opposite faces along each *)
(* axis is then the length itself), `charges` for has("initial_charges"),  *)
(* and `info` the Atoms.info mapping.  Cutoffs and lengths are whole       *)
(* numbers of Angstrom.                                                    *)

sCutOff        == <<"C", "u", "t", "O", "f", "f">>
sFrameworkName == <<"F", "r", "a", "m", "e", "w", "o", "r", "k", "N", "a", "m", "e">>
sUnitCells     == <<"U", "n", "i", "t", "C", "e", "l", "l", "s">>
sUseCharges    == <<"U", "s", "e", "C", "h", "a", "r", "g", "e", "s", "F", "r", "o", "m", "C", "I", "F", "F", "i", "l", "e">>
sFramework     == <<"F", "r", "a", "m", "e", "w", "o", "r", "k">>
sframework     == <<"f", "r", "a", "m", "e", "w", "o", "r", "k">>

\* The default of get_parameter(parameters, "CutOff", default=12.0).
DefaultCutOff == VInt(12)

\* int(np.ceil(a / b)) for positive whole a and b.
CeilDiv(a, b) == (a + b - 1) \div b

\* get_suggested_cells(framework, cutoff):
\* [int(np.ceil(cutoff / (0.5 * min_i))) for min_i in [min_A, min_B, min_C]]
get_suggested_cells(framework, cutoff) ==
    VList([i \in 1..3 |-> VInt(CeilDiv(2 * cutoff.v, framework.cell[i]))])

\* get_framework_params(frameworks): the loop over enumerate(frameworks),
\* where `parameters` is the mapping the function itself builds.
get_framework_params(frameworks) ==
    LET RECURSIVE Go(_, _)
        Go(parameters, n) ==
            IF n > Len(frameworks) THEN parameters
            ELSE IF frameworks[n].empty THEN Go(parameters, n + 1)
            ELSE LET framework == frameworks[n]
                     name    == sframework \o NatStr(n - 1)
                     cutoff  == get_parameter(parameters, sCutOff, DefaultCutOff)
                     n_cells == get_suggested_cells(framework, cutoff)
                     base    == << <<sFrameworkName, VStr(name)>>,
                                   <<sUnitCells, n_cells>> >>
                     framework_params ==
                         IF framework.charges
                             THEN MergeLoop(base, << <<sUseCharges, VBool(TRUE)>> >>)
                             ELSE base
                 IN  Go(DictSet(parameters, sFramework \o <<SP>> \o NatStr(n - 1),
                                VDict(MergeLoop(framework_params, framework.info))),
                        n + 1)
    IN  Go(<<>>, 1)

\* RaspaTemplate.write_input(profile, directory, atoms, parameters,
\* properties) with the caller's parameters as object `id` of heap h: the
\* framework parameters are a new object, the merge makes another, and that
\* one is written to the input file.
write_input(h, id, ats) ==
    LET h1 == Append(h, get_framework_params(<<ats>>))
        m  == merge_parameters(h1, id, Len(h1))
        w  == write_simulation_input(m.heap, m.ret.v)
    IN  [heap |-> w.heap, file |-> w.file, ret |-> VNone, parameters |-> m.ret]

\* The deep copy that merge_parameters takes of a mapping held in a local
\* variable: an entry that is one of the caller's objects becomes a copy of
\* what that object holds now.
deepcopy_local(h, d) ==
    [i \in 1..Len(d) |->
        <<d[i][1], IF d[i][2].t = "ref" THEN VDict(h[d[i][2].v]) ELSE d[i][2]>>]

\* merge_parameters(dict1, dict2) with dict1 in a local variable: dict2's
\* values are assigned as they are, a reference staying a reference.
merge_parameters_local(h, dict1, dict2) == MergeLoop(deepcopy_local(h, dict1), dict2)

sMoleculeName == <<"M", "o", "l", "e", "c", "u", "l", "e", "N", "a", "m", "e">>

\* f"Component {i} MoleculeName {molecule_name}"
component_key(i, molecule_name) ==
    <<"C", "o", "m", "p", "o", "n", "e", "n", "t", " ">> \o NatStr(i) \o <<" ", "M", "o", "l", "e", "c", "u", "l", "e", "N", "a", "m", "e", " ">> \o StrOf(molecule_name)

\* f"Box {i}"
box_key(i) == <<"B", "o", "x", " ">> \o NatStr(i)

\* Raspa.__init__(multiple_frameworks, boxes, components, parameters):
\* `components` are the identities of the caller's component dicts in heap
\* h, in list order; None and an empty list or dict are both the empty
\* sequence.  The result is the heap after the call and the parameters the
\* calculator is given, where a component that was assigned by the last
\* merge is still the caller's object.
Raspa_init(h, multiple_frameworks, boxes, components, parameters) ==
    LET p0 == merge_parameters_local(h, parameters,
                                     get_framework_params(multiple_frameworks))
        RECURSIVE Components(_, _, _)
        Components(hh, p, i) ==
            IF i > Len(components) THEN [heap |-> hh, parameters |-> p]
            ELSE LET r == pop_parameter(hh, components[i], sMoleculeName)
                 IN  Components(r.heap,
                         merge_parameters_local(r.heap, p,
                             << <<component_key(i - 1, r.ret), VRef(components[i])>> >>),
                         i + 1)
        c == Components(h, p0, 1)
        RECURSIVE Boxes(_, _)
        Boxes(p, i) ==
            IF i > Len(boxes) THEN p
            ELSE Boxes(merge_parameters_local(c.heap, p,
                                              << <<box_key(i - 1), boxes[i]>> >>),
                       i + 1)
    IN  [heap |-> c.heap, parameters |-> Boxes(c.parameters, 1)]

---------------------------------------------------------------------------
(* utils/io.py: the string operations of parse_output.                     *)

\* The whitespace of str.strip(), str.split() and the regular expressions'
\* \s, among the characters of the model.
WhiteChars == {" ", "\t", "\n", "\r", "\f"}

\* s.strip(chars): the characters of cls removed from both ends.
strip_chars(s, cls) ==
    IF \A i \in 1..Len(s) : s[i] \in cls THEN <<>>
    ELSE LET a == CHOOSE i \in 1..Len(s) :
                     s[i] \notin cls /\ \A j \in 1..(i - 1) : s[j] \in cls
             b == CHOOSE i \in 1..Len(s) :
                     s[i] \notin cls /\ \A j \in (i + 1)..Len(s) : s[j] \in cls
         IN  SubSeq(s, a, b)

\* s.strip()
strip(s) == strip_chars(s, WhiteChars)

RECURSIVE SplitChars(_, _)
\* re.split(r"[cls]", s): s cut at every character of cls, empty pieces kept.
SplitChars(s, cls) ==
    IF \A i \in 1..Len(s) : s[i] \notin cls THEN <<s>>
    ELSE LET k == CHOOSE i \in 1..Len(s) :
                     s[i] \in cls /\ \A j \in 1..(i - 1) : s[j] \notin cls
         IN  <<SubSeq(s, 1, k - 1)>> \o SplitChars(SubSeq(s, k + 1, Len(s)), cls)

RECURSIVE SplitRuns(_, _)
\* re.split(r"[cls]{2,}", s): s cut at every maximal run of two or more
\* characters of cls; a single such character cuts nothing.
SplitRuns(s, cls) ==
    IF \A i \in 1..(Len(s) - 1) : ~(s[i] \in cls /\ s[i + 1] \in cls) THEN <<s>>
    ELSE LET k == CHOOSE i \in 1..(Len(s) - 1) :
                     /\ s[i] \in cls /\ s[i + 1] \in cls
                     /\ \A j \in 1..(i - 1) : ~(s[j] \in cls /\ s[j + 1] \in cls)
             e == CHOOSE i \in (k + 1)..Len(s) :
                     /\ \A j \in k..i : s[j] \in cls
                     /\ (i = Len(s) \/ s[i + 1] \notin cls)
         IN  <<SubSeq(s, 1, k - 1)>> \o SplitRuns(SubSeq(s, e + 1, Len(s)), cls)

RECURSIVE SplitStr(_, _)
\* s.split(sep) for a separator string sep.
SplitStr(s, sep) ==
    IF ~Contains(s, sep) THEN <<s>>
    ELSE LET k == CHOOSE i \in 1..Len(s) :
                     MatchAt(sep, s, i) /\ \A j \in 1..(i - 1) : ~MatchAt(sep, s, j)
         IN  <<SubSeq(s, 1, k - 1)>>
             \o SplitStr(SubSeq(s, k + Len(sep), Len(s)), sep)

\* s.split(): the pieces between runs of whitespace, none of them empty.
split_ws(s) == SelectSeq(SplitChars(s, WhiteChars), LAMBDA p : p # <<>>)

\* s.rsplit(" ", n): at most n cuts, made at the last n spaces.
rsplit(s, n) ==
    LET ps == SplitOn(s, SP)
    IN  IF Len(ps) <= n + 1 THEN ps
        ELSE <<JoinWith(<<SP>>, SubSeq(ps, 1, Len(ps) - n))>>
             \o SubSeq(ps, Len(ps) - n + 1, Len(ps))

\* xs[a:b] of Python for 0 <= a, 0 <= b.
Slice(xs, a, b) == SubSeq(xs, a + 1, IF b < Len(xs) THEN b ELSE Len(xs))

\* xs[a:]
SliceFrom(xs, a) == SubSeq(xs, a + 1, Len(xs))

\* del xs[a:b]
DelRange(xs, a, b) == Slice(xs, 0, a) \o SliceFrom(xs, IF b > a THEN b ELSE a)

IsDigit(c) == \E i \in 1..Len(DigitChars) : DigitChars[i] = c
DigitVal(c) == (CHOOSE i \in 1..Len(DigitChars) : DigitChars[i] = c) - 1

\* Whether float(s) succeeds, for a string of the model: an optional sign,
\* then digits with at most one point among them.  (The model's rows hold
\* no exponent, underscore, "inf" or "nan".)
IsFloatStr(s) ==
    LET body == IF s # <<>> /\ s[1] \in {"+", "-"} THEN Tail(s) ELSE s
    IN  /\ \A i \in 1..Len(body) : IsDigit(body[i]) \/ body[i] = "."
        /\ \E i \in 1..Len(body) : IsDigit(body[i])
        /\ Cardinality({i \in 1..Len(body) : body[i] = "."}) <= 1

\* The float a string denotes, as its sign and its decimal expansion
\* without the zeros that do not count: <<negative, integer digits,
\* fraction digits>>.  float("-0") is -0.0, a float of its own that
\* compares equal to 0.0; any other two floats are equal exactly when they
\* are the same value.
VFloat(s) ==
    LET neg  == s[1] = "-"
        body == IF s[1] \in {"+", "-"} THEN Tail(s) ELSE s
        ps   == SplitOn(body, ".")
        ip   == strip_chars(ps[1] \o <<"x">>, {"0"})
        fp   == IF Len(ps) > 1 THEN strip_chars(<<"x">> \o ps[2], {"0"}) ELSE <<"x">>
        int  == SubSeq(ip, 1, Len(ip) - 1)
        frac == Tail(fp)
    IN  [t |-> "float",
         v |-> <<neg, IF int = <<>> THEN <<"0">> ELSE int, frac>>]

\* x == y of two values that are dict keys (strings and floats).
KeyEq(x, y) ==
    \/ x = y
    \/ /\ x.t = "float" /\ y.t = "float"
       /\ x.v[2] = <<"0">> /\ x.v[3] = <<>>
       /\ y.v[2] = <<"0">> /\ y.v[3] = <<>>

\* d[k] = x with values as keys: a key equal to k keeps its place and stays
\* the key object it is (0.0 stays when -0.0 is assigned), a new key goes
\* last.
DictSetV(d, k, x) ==
    IF \E i \in 1..Len(d) : KeyEq(d[i][1], k)
    THEN LET i == CHOOSE j \in 1..Len(d) : KeyEq(d[j][1], k)
         IN  [d EXCEPT ![i] = <<d[i][1], x>>]
    ELSE Append(d, <<k, x>>)

\* try_float(s) of _clean.
try_float(s) == IF IsFloatStr(s) THEN VFloat(s) ELSE VStr(s)

\* _clean(split_list): the non-empty strings, stripped, as floats where
\* float() takes them.
clean(split_list) ==
    LET kept == SelectSeq(split_list, LAMBDA s : s # <<>>)
    IN  [i \in 1..Len(kept) |-> try_float(strip(kept[i]))]

\* Whether no item is a float, as str.join demands.
AllStr(xs) == \A i \in 1..Len(xs) : xs[i].t = "str"

\* sep.join(xs) of strings held as values.
JoinVals(sep, xs) == JoinWith(sep, [i \in 1..Len(xs) |-> xs[i].v])

\* "%s" % x
FormatS(x) == IF x.t = "float" THEN FloatStr(x) ELSE x.v

---------------------------------------------------------------------------
(* utils/io.py: the rules of parse_output for one line of a section.       *)
(* A rule takes the section title `key`, the line `item` and the state     *)
(* st = [d, note_index, gas_name] of the loop, and gives the state after   *)
(* the line with exc = "" or the exception that ends parse_output.         *)

sBlock      == <<"B", "l", "o", "c", "k">>
sBoxLengths == <<"B", "o", "x", "-", "l", "e", "n", "g", "t", "h", "s">>
sVdW        == <<"V", "a", "n", " ", "d", "e", "r", " ", "W", "a", "a", "l", "s", ":">>
sAverage5   == <<"A", "v", "e", "r", "a", "g", "e", " ", " ", " ", " ", " ">>
sSurfaceArea == <<"S", "u", "r", "f", "a", "c", "e", " ", "a", "r", "e", "a", ":">>
sDesorption == <<"d", "e", "s", "o", "r", "p", "t", "i", "o", "n">>
sSurface    == <<"S", "u", "r", "f", "a", "c", "e">>
sAngle      == <<"a", "n", "g", "l", "e">>
sNote       == <<"N", "o", "t", "e">>
sAverage    == <<"A", "v", "e", "r", "a", "g", "e">>
sHost       == <<"H", "o", "s", "t", "-">>
sCation     == <<"-", "C", "a", "t", "i", "o", "n">>
sAdsAds     == <<"A", "d", "s", "o", "r", "b", "a", "t", "e", "-", "A", "d", "s", "o", "r", "b", "a", "t", "e">>
sStdDev     == <<"s", "t", "a", "n", "d", "a", "r", "d", " ", "d", "e", "v", "i", "a", "t", "i", "o", "n">>
sNumMol     == <<"N", "u", "m", "b", "e", "r", " ", "o", "f", " ", "m", "o", "l", "e", "c", "u", "l", "e", "s">>
sComponent  == <<"C", "o", "m", "p", "o", "n", "e", "n", "t">>
sAvgWidom   == <<"A", "v", "e", "r", "a", "g", "e", " ", "W", "i", "d", "o", "m">>
sWidom      == <<"W", "i", "d", "o", "m">>
sAvgHenry   == <<"A", "v", "e", "r", "a", "g", "e", " ", "H", "e", "n", "r", "y">>
sHenry      == <<"H", "e", "n", "r", "y">>
sEquals     == <<"=", "=", "=", "=", "=">>
sStarting   == <<"S", "t", "a", "r", "t", "i", "n", "g", " ", "s", "i", "m", "u", "l", "a", "t", "i", "o", "n">>
sFinishing  == <<"F", "i", "n", "i", "s", "h", "i", "n", "g", " ", "s", "i", "m", "u", "l", "a", "t", "i", "o", "n">>
sDashes     == <<"-", "-", "-", "-", "-">>
sPluses     == <<"+", "+", "+", "+", "+">>
sExclusion  == <<"E", "x", "c", "l", "u", "s", "i", "o", "n", " ", "c", "o", "n", "s", "t", "r", "a", "i", "n", "t", "s", " ", "e", "n", "e", "r", "g", "y">>
sAbsAds     == <<"a", "b", "s", "o", "l", "u", "t", "e", " ", "a", "d", "s", "o", "r", "p", "t", "i", "o", "n", ":">>

\* gas_name before its first assignment.
Unbound == [t |-> "unbound", v |-> 0]

Ok(st, dd) == [d |-> dd, note_index |-> st.note_index,
               gas_name |-> st.gas_name, exc |-> ""]
Raise(st, e) == [d |-> st.d, note_index |-> st.note_index,
                 gas_name |-> st.gas_name, exc |-> e]
\* The exception e of a rule that has already written to d: d is dd in the
\* frame the exception leaves.
RaiseAfter(st, dd, e) == [d |-> dd, note_index |-> st.note_index,
                          gas_name |-> st.gas_name, exc |-> e]

\* blocks = _clean(item.split()); d["".join(blocks[:2])] = blocks[2:]
rule_block(key, item, st) ==
    LET blocks == clean(split_ws(item))
    IN  IF ~AllStr(Slice(blocks, 0, 2)) THEN Raise(st, "TypeError")
        ELSE Ok(st, DictSetV(st.d, VStr(JoinVals(<<>>, Slice(blocks, 0, 2))),
                            VList(SliceFrom(blocks, 2))))

\* The "Average     " / "Surface area:" lines.
rule_average(key, item, st) ==
    LET ad == clean(split_ws(item))
    IN  IF Len(ad) = 8 THEN
            LET cut == DelRange(ad, 2, 4)
            IN  IF ~AllStr(Slice(cut, 4, 6)) THEN Raise(st, "TypeError")
                ELSE Ok(st, DictSetV(st.d, VStr(JoinVals(<<SP>>, Slice(cut, 4, 6))),
                                    VList(Slice(cut, 1, 4))))
        ELSE IF Len(ad) = 5 THEN
            Ok(st, DictSetV(st.d, ad[Len(ad)], VList(Slice(ad, 1, 4))))
        ELSE IF Len(ad) = 0 THEN Raise(st, "IndexError")
        ELSE IF ad[1].t # "str" THEN Raise(st, "TypeError")
        ELSE IF Contains(ad[1].v, sSurface) THEN
            Ok(st, DictSetV(st.d, ad[Len(ad)], VList(Slice(ad, 2, 5))))
        ELSE IF Len(ad) < 3 THEN Raise(st, "IndexError")
        ELSE LET cut == DelRange(ad, 2, 3)
             IN  Ok(st, DictSetV(st.d, cut[Len(cut)], VList(Slice(cut, 1, 4))))

\* The lines of a "Box-lengths" section.
rule_box_lengths(key, item, st) ==
    LET bl == clean(split_ws(item))
        i  == IF Contains(item, sAngle) THEN 3 ELSE 2
    IN  IF ~AllStr(Slice(bl, 0, i)) THEN Raise(st, "TypeError")
        ELSE Ok(st, DictSetV(st.d, VStr(JoinVals(<<SP>>, Slice(bl, 0, i))),
                            VList(SliceFrom(bl, i))))

\* The desorption rule with a note counter that is never incremented.
rule_desorption_no_count(key, item, st) ==
    IF Contains(item, sNote) THEN
        LET notes == SplitRuns(item, WhiteChars \cup {":"})
        IN  IF Len(notes) < 2 THEN Raise(st, "IndexError")
            ELSE [d |-> DictSetV(st.d,
                                VStr(notes[1] \o <<SP>> \o NatStr(st.note_index)),
                                VStr(notes[2])),
                  note_index |-> st.note_index,
                  gas_name |-> st.gas_name,
                  exc |-> ""]
    ELSE
        LET hd0 == clean(split_ws(item))
            hd  == IF Contains(item, sAverage) THEN SliceFrom(hd0, 1) ELSE hd0
        IN  IF Len(hd) = 0 THEN Raise(st, "IndexError")
            ELSE Ok(st, DictSetV(st.d, hd[Len(hd)], VList(Slice(hd, 0, 3))))

\* The lines of a "desorption" section.
rule_desorption(key, item, st) ==
    IF Contains(item, sNote) THEN
        LET notes == SplitRuns(item, WhiteChars \cup {":"})
        IN  IF Len(notes) < 2 THEN Raise(st, "IndexError")
            ELSE [d |-> DictSetV(st.d,
                                VStr(notes[1] \o <<SP>> \o NatStr(st.note_index)),
                                VStr(notes[2])),
                  note_index |-> st.note_index + 1,
                  gas_name |-> st.gas_name,
                  exc |-> ""]
    ELSE
        LET hd0 == clean(split_ws(item))
            hd  == IF Contains(item, sAverage) THEN SliceFrom(hd0, 1) ELSE hd0
        IN  IF Len(hd) = 0 THEN Raise(st, "IndexError")
            ELSE Ok(st, DictSetV(st.d, hd[Len(hd)], VList(Slice(hd, 0, 3))))

RECURSIVE DictOfPairs(_)
\* {s[0]: s[1] for s in pairs}
DictOfPairs(pairs) ==
    IF pairs = <<>> THEN <<>>
    ELSE DictSetV(DictOfPairs(SubSeq(pairs, 1, Len(pairs) - 1)),
                 pairs[Len(pairs)][1], pairs[Len(pairs)][2])

\* The lines of a "Host-", "-Cation" or "Adsorbate-Adsorbate" section.
\* An Average line writes d[avg[0]], then the Van der Waals average, then
\* the Coulomb average: an IndexError on the second or third write leaves
\* the writes before it in d.
rule_host(key, item, st) ==
    LET van_der == split_ws(item)
    IN  IF Len(van_der) = 0 THEN Raise(st, "IndexError")
        ELSE IF Contains(van_der[1], sBlock) THEN
            LET segs     == SliceFrom(SplitRuns(item, WhiteChars), 1)
                sub_data == [i \in 1..Len(segs) |-> clean(SplitOn(segs[i], ":"))]
                two      == Slice(sub_data, 0, 2)
            IN  IF \E i \in 1..Len(two) : Len(two[i]) < 2 THEN Raise(st, "IndexError")
                ELSE IF Len(van_der) < 3 THEN Raise(st, "IndexError")
                ELSE IF ~IsFloatStr(strip(van_der[3])) THEN Raise(st, "ValueError")
                ELSE Ok(st, DictSetV(st.d, VStr(Concat(Slice(van_der, 0, 2))),
                                    VList(<<VFloat(strip(van_der[3])),
                                            VDict(DictOfPairs(two))>>)))
        ELSE IF Contains(item, sAverage) THEN
            LET avg  == clean(SplitRuns(item, WhiteChars))
                pair == Slice(avg, 2, 4)
            IN  IF Len(pair) >= 1 /\ pair[1].t # "str" THEN Raise(st, "AttributeError")
                ELSE IF Len(pair) < 2 THEN Raise(st, "ValueError")
                ELSE IF pair[2].t # "str" THEN Raise(st, "AttributeError")
                ELSE LET vdw     == clean(SplitStr(pair[1].v, <<":", SP>>))
                         coulomb == clean(SplitStr(pair[2].v, <<":", SP>>))
                         d1      == DictSetV(st.d, avg[1], avg[2])
                     IN  IF Len(vdw) < 2 THEN RaiseAfter(st, d1, "IndexError")
                         ELSE LET d2 == DictSetV(d1,
                                          VStr(sAverage \o <<SP>> \o FormatS(vdw[1])),
                                          vdw[2])
                              IN  IF Len(coulomb) < 2
                                  THEN RaiseAfter(st, d2, "IndexError")
                                  ELSE Ok(st, DictSetV(d2,
                                            VStr(sAverage \o <<SP>> \o FormatS(coulomb[1])),
                                            coulomb[2]))
        ELSE Ok(st, DictSetV(st.d, VStr(sStdDev), VList(clean(van_der))))

\* The lines of a "Number of molecules" section: a Component line binds
\* gas_name to its third token without the brackets around it and sets
\* d[gas_name] = {}; any other line sets d[gas_name][first] = rest.
rule_molecules(key, item, st) ==
    LET adsorb_data == clean(rsplit(item, 12))
    IN  IF Contains(item, sComponent) THEN
            IF Len(adsorb_data) < 3 THEN Raise(st, "IndexError")
            ELSE IF adsorb_data[3].t # "str" THEN Raise(st, "AttributeError")
            ELSE LET name == strip_chars(adsorb_data[3].v, {"[", "]"})
                 IN  [d |-> DictSetV(st.d, VStr(name), VDict(<<>>)),
                      note_index |-> st.note_index,
                      gas_name |-> VStr(name),
                      exc |-> ""]
        ELSE IF st.gas_name = Unbound THEN Raise(st, "UnboundLocalError")
        ELSE IF IndexOf(st.d, st.gas_name) = 0 THEN Raise(st, "KeyError")
        ELSE IF Len(adsorb_data) = 0 THEN Raise(st, "IndexError")
        ELSE LET sub == st.d[IndexOf(st.d, st.gas_name)][2]
             IN  IF sub.t # "dict" THEN Raise(st, "TypeError")
                 ELSE Ok(st, DictSetV(st.d, st.gas_name,
                                     VDict(DictSetV(sub.v, adsorb_data[1],
                                                   VList(SliceFrom(adsorb_data, 1))))))

\* d["Widom"] = _clean(item.rsplit(" ", 5))[1:], and the same for Henry.
rule_widom_henry(name, item, st) ==
    Ok(st, DictSetV(st.d, VStr(name), VList(SliceFrom(clean(rsplit(item, 5)), 1))))

\* The last rule: the line cut at ( ) [ ] : , and tab.
rule_other(key, item, st) ==
    LET parsed_data == clean(SplitChars(item, {"(", ")", "[", "]", ":", ",", "\t"}))
    IN  IF Len(parsed_data) = 0 THEN Raise(st, "IndexError")
        ELSE Ok(st, DictSetV(st.d, parsed_data[1], VList(SliceFrom(parsed_data, 1))))

\* Which branch of the if / elif chain takes the line.
rule_of(key, item) ==
    IF /\ Contains(item, sBlock)
       /\ ~Contains(key, sBoxLengths)
       /\ ~Contains(item, sVdW) THEN "block"
    ELSE IF /\ (Contains(item, sAverage5) \/ Contains(item, sSurfaceArea))
            /\ ~Contains(key, sDesorption) THEN "average"
    ELSE IF Contains(key, sBoxLengths) THEN "box_lengths"
    ELSE IF Contains(key, sDesorption) THEN "desorption"
    ELSE IF /\ (Contains(key, sHost) \/ Contains(key, sCation) \/ Contains(key, sAdsAds))
            /\ ~Contains(key, sDesorption) THEN "host"
    ELSE IF Contains(key, sNumMol) THEN "molecules"
    ELSE IF Contains(item, sAvgWidom) THEN "widom"
    ELSE IF Contains(item, sAvgHenry) THEN "henry"
    ELSE IF \/ Contains(item, sEquals)
            \/ Contains(item, sStarting)
            \/ Contains(item, sFinishing) THEN "ignore"
    ELSE "other"

\* The body of `for item in values`.
parse_item(key, item, st) ==
    LET r == rule_of(key, item)
    IN  CASE r = "block"       -> rule_block(key, item, st)
          [] r = "average"     -> rule_average(key, item, st)
          [] r = "box_lengths" -> rule_box_lengths(key, item, st)
          [] r = "desorption"  -> rule_desorption(key, item, st)
          [] r = "host"        -> rule_host(key, item, st)
          [] r = "molecules"   -> rule_molecules(key, item, st)
          [] r = "widom"       -> rule_widom_henry(sWidom, item, st)
          [] r = "henry"       -> rule_widom_henry(sHenry, item, st)
          [] r = "ignore"      -> Ok(st, st.d)
          [] OTHER             -> rule_other(key, item, st)

---------------------------------------------------------------------------
(* utils/io.py: parse_output.  Positions in `data` count from 1: Python's  *)
(* index i is position i + 1.                                              *)

\* data = [row.strip() for row in raspa_output.splitlines()
\*         if row and all(d not in row for d in ["-----", "+++++"])]
\* with a test on the stripped row instead: a row of spaces is dropped too.
filter_rows_stripped(rs) ==
    LET kept == SelectSeq(rs, LAMBDA row :
                    /\ strip(row) # <<>>
                    /\ ~Contains(row, sDashes)
                    /\ ~Contains(row, sPluses))
    IN  [i \in 1..Len(kept) |-> strip(kept[i])]

\* data = [row.strip() for row in raspa_output.splitlines()
\*         if row and all(d not in row for d in ["-----", "+++++"])]
filter_rows(rs) ==
    LET kept == SelectSeq(rs, LAMBDA row :
                    /\ row # <<>>
                    /\ ~Contains(row, sDashes)
                    /\ ~Contains(row, sPluses))
    IN  [i \in 1..Len(kept) |-> strip(kept[i])]

\* data[i - 1] of Python for position p = i + 1: index -1 is the last row.
PrevRow(dat, p) == dat[IF p = 1 THEN Len(dat) ELSE p - 1]

\* delimiters = [i for i, row in enumerate(data) if "=====" in row
\*               and "Exclusion constraints energy" not in data[i - 1]]
find_delimiters(dat) ==
    SelectSeq([p \in 1..Len(dat) |-> p], LAMBDA p :
        /\ Contains(dat[p], sEquals)
        /\ ~Contains(PrevRow(dat, p), sExclusion))

\* The merge that joins each row with the row two below it, and the row one
\* below with the row three below.
merge_abs_adsorption_alternate(dat) ==
    LET abs_adsorp_rows ==
            SelectSeq([p \in 1..Len(dat) |-> p], LAMBDA p : Contains(dat[p], sAbsAds))
        RECURSIVE Go(_, _)
        Go(cur, k) ==
            IF k > Len(abs_adsorp_rows) THEN [data |-> cur, exc |-> ""]
            ELSE LET row == abs_adsorp_rows[k]
                 IN  IF row + 2 > Len(cur) THEN [data |-> cur, exc |-> "IndexError"]
                     ELSE LET joined == [cur EXCEPT ![row] = cur[row] \o <<SP, SP>> \o cur[row + 2]]
                          IN  IF row + 3 > Len(cur)
                              THEN [data |-> joined, exc |-> "IndexError"]
                              ELSE Go([joined EXCEPT ![row + 2] = cur[row + 1] \o cur[row + 3],
                                                     ![row + 1] = <<SP>>,
                                                     ![row + 3] = <<SP>>], k + 1)
    IN  Go(dat, 1)

\* abs_adsorp_rows and the loop over them: each row takes the next row
\* after two spaces, the row two below takes the row three below, and the
\* rows one and three below become " ".  A row missing below is an
\* IndexError: with no row below, before any write; with one or two rows
\* below, after the row has taken the next row.
merge_abs_adsorption(dat) ==
    LET abs_adsorp_rows ==
            SelectSeq([p \in 1..Len(dat) |-> p], LAMBDA p : Contains(dat[p], sAbsAds))
        RECURSIVE Go(_, _)
        Go(cur, k) ==
            IF k > Len(abs_adsorp_rows) THEN [data |-> cur, exc |-> ""]
            ELSE LET row == abs_adsorp_rows[k]
                 IN  IF row + 1 > Len(cur) THEN [data |-> cur, exc |-> "IndexError"]
                     ELSE LET joined == [cur EXCEPT ![row] = cur[row] \o <<SP, SP>> \o cur[row + 1]]
                          IN  IF row + 3 > Len(cur)
                              THEN [data |-> joined, exc |-> "IndexError"]
                              ELSE Go([joined EXCEPT ![row + 2] = cur[row + 2] \o cur[row + 3],
                                                     ![row + 1] = <<SP>>,
                                                     ![row + 3] = <<SP>>], k + 1)
    IN  Go(dat, 1)

\* The lines of a section not parsed yet.
VLines(ls) == [t |-> "lines", v |-> ls]

\* The section split that keeps the first of the sections with one title.
split_sections_first(dat, delims) ==
    LET RECURSIVE Go(_, _)
        Go(inf, i) ==
            IF i >= Len(delims) THEN inf
            ELSE LET title == strip_chars(PrevRow(dat, delims[i]), {":"})
                 IN  IF IndexOf(inf, title) # 0 THEN Go(inf, i + 1)
                     ELSE Go(DictSet(inf, title,
                                     VLines(SubSeq(dat, delims[i] + 1, delims[i + 1] - 2))),
                             i + 1)
    IN  Go(<<>>, 1)

\* The section split with a content that runs up to the next delimiter: the
\* next section's title is its last line.
split_sections_to_delimiter(dat, delims) ==
    LET RECURSIVE Go(_, _)
        Go(inf, i) ==
            IF i >= Len(delims) THEN inf
            ELSE Go(DictSet(inf, strip_chars(PrevRow(dat, delims[i]), {":"}),
                            VLines(SubSeq(dat, delims[i] + 1, delims[i + 1] - 1))),
                    i + 1)
    IN  Go(<<>>, 1)

\* info = {data[n - 1].strip(":"): data[n + 1 : delimiters[i + 1] - 1]
\*         for i, n in enumerate(delimiters[:-1])}
split_sections(dat, delims) ==
    LET RECURSIVE Go(_, _)
        Go(inf, i) ==
            IF i >= Len(delims) THEN inf
            ELSE Go(DictSet(inf, strip_chars(PrevRow(dat, delims[i]), {":"}),
                            VLines(SubSeq(dat, delims[i] + 1, delims[i + 1] - 2))),
                    i + 1)
    IN  Go(<<>>, 1)

\* Atoms(): no atoms, no cell, nothing in info.
EmptyAtoms == [empty |-> TRUE, cell |-> <<>>, charges |-> FALSE, info |-> <<>>]

\* Raspa() with no argument.
NoArgs == [multiple_frameworks |-> <<>>, boxes |-> <<>>, parameters |-> <<>>]

\* No calculator is in use.
CalcIdle ==
    /\ atoms = EmptyAtoms
    /\ args = NoArgs
    /\ calcs = <<>>

\* No call of parse_output is under way.
ParseIdle ==
    /\ rows = <<>>
    /\ data = <<>>
    /\ delimiters = <<>>
    /\ info = <<>>
    /\ pc = "idle"
    /\ sec = 0
    /\ idx = 0
    /\ sd = <<>>
    /\ note_index = 0
    /\ gas_name = Unbound
    /\ exc = ""

---------------------------------------------------------------------------
(* The inputs.                                                             *)

KeyPool == {<<"a">>, <<"A">>, <<"b">>, <<"C">>}

\* Key sequences of at most MaxKeys keys, no two equal ignoring case (the
\* data model's invariant on a Mapping).
KeySeqs ==
    UNION {{ks \in [1..n -> KeyPool] :
               \A i, j \in 1..n : i # j => lower(ks[i]) # lower(ks[j])}
           : n \in 0..MaxKeys}

DictsOver(vals) ==
    UNION {{[i \in 1..Len(ks) |-> <<ks[i], xs[i]>>] : xs \in [1..Len(ks) -> vals]}
           : ks \in KeySeqs}

Primaries   == DictsOver({VInt(1), VDict(<< <<<<"x">>, VInt(2)>> >>)})
Secondaries == DictsOver({VInt(3), VStr(<<"N", "2">>)})

\* The scalars and lists of a parameter tree.
Leaves == {VBool(TRUE), VBool(FALSE), VFloat(<<"1", "2", ".", "8">>),
           VList(<<VBool(TRUE), VInt(2)>>)}

\* The key of the i-th entry of a mapping of a tree.
KeyAt(i) == <<LowerChars[i]>>

WithKeys(f) == [i \in 1..Len(f) |-> <<KeyAt(i), f[i]>>]

RECURSIVE ForestVals(_), NodeVals(_)
\* The value sequences with n entries in all, nested ones counted.
ForestVals(n) ==
    IF n = 0 THEN {<<>>}
    ELSE UNION {{<<x>> \o rest : x \in NodeVals(k), rest \in ForestVals(n - k)}
                : k \in 1..n}

\* The values that take k entries: a leaf or an empty mapping (k = 1), or
\* a mapping with k - 1 entries below it.
NodeVals(k) ==
    IF k = 1 THEN Leaves \cup {VDict(<<>>)}
    ELSE {VDict(WithKeys(f)) : f \in ForestVals(k - 1)}

\* The parameter trees of at most MaxNodes entries.
Trees == UNION {{WithKeys(f) : f \in ForestVals(n)} : n \in 0..MaxNodes}

PopKeys == KeyPool \cup {<<"B">>, <<"c">>}

---------------------------------------------------------------------------
(* Specification of the dictionary helpers: one call on drawn mappings.    *)

InitDicts ==
    /\ heap \in {<<p, s>> : p \in Primaries, s \in Secondaries}
    /\ op = "init"
    /\ a1 = 0
    /\ a2 = 0
    /\ ret = VNone
    /\ pre = heap
    /\ file = VNone
    /\ prevFile = VNone
    /\ nwrites = 0
    /\ ParseIdle
    /\ CalcIdle

MergeParameters ==
    /\ op = "init"
    /\ \E id1, id2 \in DOMAIN heap :
          \E r \in {merge_parameters(heap, id1, id2)} :
              /\ heap' = r.heap
              /\ ret' = r.ret
              /\ a1' = id1
              /\ a2' = id2
    /\ op' = "merge"
    /\ pre' = heap
    /\ UNCHANGED <<file, prevFile, nwrites>>
    /\ UNCHANGED parseVars
    /\ UNCHANGED calcVars

PopParameter ==
    /\ op = "init"
    /\ \E id \in DOMAIN heap, key \in PopKeys :
          \E r \in {pop_parameter(heap, id, key)} :
              /\ heap' = r.heap
              /\ ret' = r.ret
              /\ a1' = id
              /\ a2' = key
    /\ op' = "pop"
    /\ pre' = heap
    /\ UNCHANGED <<file, prevFile, nwrites>>
    /\ UNCHANGED parseVars
    /\ UNCHANGED calcVars

GetParameter ==
    /\ op = "init"
    /\ \E id \in DOMAIN heap, key \in PopKeys :
          /\ ret' = get_parameter(heap[id], key, VNone)
          /\ a1' = id
          /\ a2' = key
    /\ op' = "get"
    /\ pre' = heap
    /\ UNCHANGED <<heap, file, prevFile, nwrites>>
    /\ UNCHANGED parseVars
    /\ UNCHANGED calcVars

NextDicts == MergeParameters \/ PopParameter \/ GetParameter

SpecDicts == InitDicts /\ [][NextDicts]_vars

---------------------------------------------------------------------------
(* Specification of the writer: consecutive calls on one drawn tree.       *)

InitWrite ==
    /\ heap \in {<<d>> : d \in Trees}
    /\ op = "init"
    /\ a1 = 1
    /\ a2 = 0
    /\ ret = VNone
    /\ pre = heap
    /\ file = VNone
    /\ prevFile = VNone
    /\ nwrites = 0
    /\ ParseIdle
    /\ CalcIdle

WriteSimulationInput ==
    /\ nwrites < MaxWrites
    /\ \E r \in {write_simulation_input(heap, 1)} :
           /\ heap' = r.heap
           /\ file' = r.file
           /\ ret' = r.ret
    /\ prevFile' = file
    /\ nwrites' = nwrites + 1
    /\ op' = "write"
    /\ pre' = heap
    /\ UNCHANGED <<a1, a2>>
    /\ UNCHANGED parseVars
    /\ UNCHANGED calcVars

\* convert_booleans(parameters) called on its own: the tree object is
\* changed in place and returned, nothing is written.
ConvertBooleans ==
    /\ heap' = [heap EXCEPT ![1] = convert_booleans(heap[1])]
    /\ ret' = VRef(1)
    /\ op' = "convert_booleans"
    /\ pre' = heap
    /\ UNCHANGED <<a1, a2, file, prevFile, nwrites>>
    /\ UNCHANGED parseVars
    /\ UNCHANGED calcVars

NextWrite == WriteSimulationInput \/ ConvertBooleans

SpecWrite == InitWrite /\ [][NextWrite]_vars

---------------------------------------------------------------------------
(* Specification of write_input: one call with drawn parameters on a drawn *)
(* Atoms object.                                                           *)

CellLengths == {5, 8, 24, 30}

CutOffs == {VInt(6), VInt(12), VInt(25)}

\* The caller's parameters: no cutoff, or one under either casing, before
\* or after another parameter.
UserParameters ==
    {<<>>, << <<<<"F", "o", "r", "c", "e", "f", "i", "e", "l", "d">>, VStr(<<"U", "F", "F">>)>> >>}
    \cup {<< <<k, c>> >> : k \in {sCutOff, <<"c", "u", "t", "o", "f", "f">>}, c \in CutOffs}
    \cup {<< <<<<"F", "o", "r", "c", "e", "f", "i", "e", "l", "d">>, VStr(<<"U", "F", "F">>)>>, <<sCutOff, c>> >> : c \in CutOffs}

\* Atoms.info: nothing, UnitCells given by the user, or another parameter.
Infos ==
    {<<>>,
     << <<sUnitCells, VList(<<VInt(1), VInt(1), VInt(1)>>)>> >>,
     << <<<<"u", "n", "i", "t", "c", "e", "l", "l", "s">>, VList(<<VInt(2), VInt(2), VInt(2)>>)>> >>,
     << <<<<"H", "e", "l", "i", "u", "m", "V", "o", "i", "d", "F", "r", "a", "c", "t", "i", "o", "n">>, VFloat(<<"0", ".", "7", "5">>)>> >>}

AtomsPool ==
    {EmptyAtoms}
    \cup {[empty |-> FALSE, cell |-> c, charges |-> q, info |-> i] :
              c \in [1..3 -> CellLengths], q \in BOOLEAN, i \in Infos}

InitCalc ==
    /\ heap \in {<<p>> : p \in UserParameters}
    /\ atoms \in AtomsPool
    /\ args = NoArgs
    /\ calcs = <<>>
    /\ op = "init"
    /\ a1 = 1
    /\ a2 = 0
    /\ ret = VNone
    /\ pre = heap
    /\ file = VNone
    /\ prevFile = VNone
    /\ nwrites = 0
    /\ ParseIdle

\* write_input is called once; a2 is the object that was written.
WriteInput ==
    /\ op = "init"
    /\ \E r \in {write_input(heap, 1, atoms)} :
           /\ heap' = r.heap
           /\ file' = r.file
           /\ ret' = r.ret
           /\ a2' = r.parameters.v
    /\ prevFile' = file
    /\ nwrites' = nwrites + 1
    /\ op' = "write_input"
    /\ pre' = heap
    /\ UNCHANGED <<a1, atoms, args, calcs>>
    /\ UNCHANGED parseVars

NextCalc == WriteInput

SpecCalc == InitCalc /\ [][NextCalc]_vars

---------------------------------------------------------------------------
(* Specification of the calculator's construction: Raspa(...) is called    *)
(* with the same arguments, the same components list among them, up to     *)
(* MaxCalcs times.  The heap holds the caller's component dicts.           *)

MaxComponents == 2
MaxCalcs == 2

\* The component dicts a caller passes.
ComponentPool ==
    {<< <<sMoleculeName, VStr(<<"N", "2">>)>>, <<<<"M", "o", "l", "e", "c", "u", "l", "e", "D", "e", "f", "i", "n", "i", "t", "i", "o", "n">>, VStr(<<"x">>)>> >>,
     << <<<<"T", "r", "a", "n", "s", "l", "a", "t", "i", "o", "n", "P", "r", "o", "b", "a", "b", "i", "l", "i", "t", "y">>, VFloat(<<"1", ".", "0">>)>>, <<<<"m", "o", "l", "e", "c", "u", "l", "e", "n", "a", "m", "e">>, VStr(<<"C", "O", "2">>)>> >>,
     << <<sMoleculeName, VInt(7)>> >>,
     << <<<<"M", "o", "l", "e", "c", "u", "l", "e", "D", "e", "f", "i", "n", "i", "t", "i", "o", "n">>, VStr(<<"x">>)>> >>}

BoxLists ==
    {<<>>,
     <<VDict(<< <<<<"B", "o", "x", "L", "e", "n", "g", "t", "h", "s">>, VList(<<VInt(1), VInt(2), VInt(3)>>)>> >>)>>,
     <<VDict(<< <<<<"B", "o", "x", "L", "e", "n", "g", "t", "h", "s">>, VList(<<VInt(1), VInt(2), VInt(3)>>)>> >>),
       VDict(<<>>)>>}

FrameworkLists ==
    {<<>>,
     <<[empty |-> FALSE, cell |-> <<5, 8, 30>>, charges |-> FALSE, info |-> <<>>]>>,
     <<EmptyAtoms,
       [empty |-> FALSE, cell |-> <<24, 24, 24>>, charges |-> TRUE,
        info |-> << <<sUnitCells, VList(<<VInt(1), VInt(1), VInt(1)>>)>> >>]>>}

ConstructorParameters ==
    {<<>>,
     << <<sCutOff, VInt(25)>> >>,
     << <<<<"c", "o", "m", "p", "o", "n", "e", "n", "t", " ", "0", " ", "m", "o", "l", "e", "c", "u", "l", "e", "n", "a", "m", "e", " ", "n", "2">>, VInt(1)>> >>}

InitRaspa ==
    /\ heap \in UNION {[1..n -> ComponentPool] : n \in 0..MaxComponents}
    /\ args \in [multiple_frameworks : FrameworkLists, boxes : BoxLists,
                 parameters : ConstructorParameters]
    /\ calcs = <<>>
    /\ atoms = EmptyAtoms
    /\ op = "init"
    /\ a1 = 0
    /\ a2 = 0
    /\ ret = VNone
    /\ pre = heap
    /\ file = VNone
    /\ prevFile = VNone
    /\ nwrites = 0
    /\ ParseIdle

\* Raspa(multiple_frameworks=..., boxes=..., components=components,
\* parameters=...): one more calculator from the same arguments.
Construct ==
    /\ Len(calcs) < MaxCalcs
    /\ \E r \in {Raspa_init(heap, args.multiple_frameworks, args.boxes,
                            [i \in 1..Len(heap) |-> i], args.parameters)} :
           /\ heap' = r.heap
           /\ calcs' = Append(calcs, r.parameters)
    /\ op' = "Raspa"
    /\ pre' = heap
    /\ UNCHANGED <<a1, a2, ret, file, prevFile, nwrites, atoms, args>>
    /\ UNCHANGED parseVars

NextRaspa == Construct

SpecRaspa == InitRaspa /\ [][NextRaspa]_vars

---------------------------------------------------------------------------
(* Specification of parse_output: one call on a drawn text, step by step.  *)

DictsIdle ==
    /\ heap = <<>>
    /\ op = "init"
    /\ a1 = 0
    /\ a2 = 0
    /\ ret = VNone
    /\ pre = <<>>
    /\ file = VNone
    /\ prevFile = VNone
    /\ nwrites = 0

\* parse_output is entered with the rows of the text that was read.
ParseStart(docs) ==
    /\ rows \in docs
    /\ data = <<>>
    /\ delimiters = <<>>
    /\ info = <<>>
    /\ pc = "filter"
    /\ sec = 0
    /\ idx = 0
    /\ sd = <<>>
    /\ note_index = 0
    /\ gas_name = Unbound
    /\ exc = ""
    /\ DictsIdle
    /\ CalcIdle

FilterRows ==
    /\ pc = "filter"
    /\ data' = filter_rows(rows)
    /\ pc' = "delimiters"
    /\ UNCHANGED <<rows, delimiters, info, sec, idx, sd, note_index, gas_name, exc>>
    /\ UNCHANGED dictVars
    /\ UNCHANGED calcVars

FindDelimiters ==
    /\ pc = "delimiters"
    /\ delimiters' = find_delimiters(data)
    /\ pc' = "merge"
    /\ UNCHANGED <<rows, data, info, sec, idx, sd, note_index, gas_name, exc>>
    /\ UNCHANGED dictVars
    /\ UNCHANGED calcVars

MergeAbsAdsorption ==
    /\ pc = "merge"
    /\ \E r \in {merge_abs_adsorption(data)} :
           /\ data' = r.data
           /\ exc' = r.exc
           /\ pc' = IF r.exc = "" THEN "split" ELSE "raised"
    /\ UNCHANGED <<rows, delimiters, info, sec, idx, sd, note_index, gas_name>>
    /\ UNCHANGED dictVars
    /\ UNCHANGED calcVars

SplitSections ==
    /\ pc = "split"
    /\ info' = split_sections(data, delimiters)
    /\ sec' = 1
    /\ pc' = "section"
    /\ UNCHANGED <<rows, data, delimiters, idx, sd, note_index, gas_name, exc>>
    /\ UNCHANGED dictVars
    /\ UNCHANGED calcVars

\* for key, values in info.items(): d, note_index = {}, 1
BeginSection ==
    /\ pc = "section"
    /\ sec <= Len(info)
    /\ sd' = <<>>
    /\ note_index' = 1
    /\ idx' = 1
    /\ pc' = "items"
    /\ UNCHANGED <<rows, data, delimiters, info, sec, gas_name, exc>>
    /\ UNCHANGED dictVars
    /\ UNCHANGED calcVars

\* for item in values: one line through the rules.
ParseItem ==
    /\ pc = "items"
    /\ idx <= Len(info[sec][2].v)
    /\ \E r \in {parse_item(info[sec][1], info[sec][2].v[idx],
                           [d |-> sd, note_index |-> note_index, gas_name |-> gas_name])} :
           /\ sd' = r.d
           /\ note_index' = r.note_index
           /\ gas_name' = r.gas_name
           /\ exc' = r.exc
           /\ pc' = IF r.exc = "" THEN "items" ELSE "raised"
    /\ idx' = idx + 1
    /\ UNCHANGED <<rows, data, delimiters, info, sec>>
    /\ UNCHANGED dictVars
    /\ UNCHANGED calcVars

\* info[key] = d
EndSection ==
    /\ pc = "items"
    /\ idx > Len(info[sec][2].v)
    /\ info' = [info EXCEPT ![sec] = <<info[sec][1], VDict(sd)>>]
    /\ sec' = sec + 1
    /\ pc' = "section"
    /\ UNCHANGED <<rows, data, delimiters, idx, sd, note_index, gas_name, exc>>
    /\ UNCHANGED dictVars
    /\ UNCHANGED calcVars

\* return info
Return ==
    /\ pc = "section"
    /\ sec > Len(info)
    /\ ret' = VDict(info)
    /\ op' = "parse_output"
    /\ pc' = "done"
    /\ UNCHANGED <<rows, data, delimiters, info, sec, idx, sd, note_index, gas_name, exc>>
    /\ UNCHANGED <<heap, a1, a2, pre, file, prevFile, nwrites>>
    /\ UNCHANGED calcVars

NextParse ==
    \/ FilterRows
    \/ FindDelimiters
    \/ MergeAbsAdsorption
    \/ SplitSections
    \/ BeginSection
    \/ ParseItem
    \/ EndSection
    \/ Return

\* The rows of the texts drawn for a parse.
RowVocab == {<<>>, <<" ", " ">>, <<"-", "-", "-", "-", "-", "-", "-", "-">>, <<"a", " ", "+", "+", "+", "+", "+">>, <<"=", "=", "=", "=", "=">>, <<"T", ":">>, <<"\t", "x", " ", "1">>, <<",">>}

Docs == UNION {[1..n -> RowVocab] : n \in 0..MaxRows}

InitParse == ParseStart(Docs)

SpecParse == InitParse /\ [][NextParse]_vars

\* Texts of at most MaxSecRows rows that are titles, delimiters or content.
SecVocab == {<<"T", ":">>, <<"=", "=", "=", "=", "=">>, <<"x", " ", "1">>, <<"E", "x", "c", "l", "u", "s", "i", "o", "n", " ", "c", "o", "n", "s", "t", "r", "a", "i", "n", "t", "s", " ", "e", "n", "e", "r", "g", "y">>}

\* Texts of at most MaxColonRows rows with titles that have ':' at both
\* ends or at the end only.
MaxColonRows == 5

ColonVocab == {<<":", "T", ":">>, <<"T", ":">>, <<"=", "=", "=", "=", "=">>, <<"x", " ", "1">>}

SecDocs ==
    UNION {[1..n -> SecVocab] : n \in 0..MaxSecRows}
    \cup UNION {[1..n -> ColonVocab] : n \in 0..MaxColonRows}

InitSections == ParseStart(SecDocs)

SpecSections == InitSections /\ [][NextParse]_vars

\* Texts with one section, of a title of TitleVocab, a delimiter, at most
\* MaxItems lines of MolVocab, and the next section's title and delimiter.
TitleVocab == {<<"N", "u", "m", "b", "e", "r", " ", "o", "f", " ", "m", "o", "l", "e", "c", "u", "l", "e", "s", ":">>, <<"C", "u", "r", "r", "e", "n", "t", " ", "l", "o", "a", "d", "i", "n", "g", "s", ":">>}
MolVocab == {<<"C", "o", "m", "p", "o", "n", "e", "n", "t", " ", "0", " ", "[", "N", "2", "]">>, <<"C", "o", "m", "p", "o", "n", "e", "n", "t", " ", "1", " ", "[", "C", "O", "2", "]">>, <<"a", " ", "1", ".", "5", " ", "+", "/", "-", " ", "2", " ", "[", "-", "]">>,
             <<"0", " ", "3">>, <<"a", " ", "7">>, <<"-", "0", " ", "7">>, <<"B", "l", "o", "c", "k", "[", " ", "0", "]", " ", "1", ".", "5", " ", "[", "-", "]">>,
             <<"C", "o", "m", "p", "o", "n", "e", "n", "t", " ", "[", "N", "2", "]">>, <<"C", "o", "m", "p", "o", "n", "e", "n", "t", " ", "0", " ", "[", "a", " ", "b", "]">>}

MolDocs ==
    {<<t, <<"=", "=", "=", "=", "=", "=", "=", "=", "=", "=", "=", "=", "=", "=", "=", "=", "=", "=", "=", "=">>>> \o body \o <<<<"A", "v", "e", "r", "a", "g", "e", ":">>, <<"=", "=", "=", "=", "=">>>> :
        t \in TitleVocab, body \in UNION {[1..n -> MolVocab] : n \in 0..MaxItems}}

InitMolecules == ParseStart(MolDocs)

SpecMolecules == InitMolecules /\ [][NextParse]_vars

\* Texts with two sections and the title of a third: the titles and the
\* lines of the two are those of one case, each section of at most MaxLines
\* lines.
RuleCases ==
    {[t1 |-> <<"N", "u", "m", "b", "e", "r", " ", "o", "f", " ", "m", "o", "l", "e", "c", "u", "l", "e", "s", ":">>, t2 |-> <<"N", "u", "m", "b", "e", "r", " ", "o", "f", " ", "m", "o", "l", "e", "c", "u", "l", "e", "s", " ", "i", "n", " ", "b", "o", "x", ":">>,
      lines |-> {<<"C", "o", "m", "p", "o", "n", "e", "n", "t", " ", "0", " ", "[", "N", "2", "]">>, <<"b", " ", "3">>, <<"S", "t", "a", "r", "t", "i", "n", "g", " ", "s", "i", "m", "u", "l", "a", "t", "i", "o", "n">>}],
     [t1 |-> <<"H", "e", "a", "t", " ", "o", "f", " ", "d", "e", "s", "o", "r", "p", "t", "i", "o", "n", ":">>, t2 |-> <<"E", "n", "t", "h", "a", "l", "p", "y", " ", "o", "f", " ", "d", "e", "s", "o", "r", "p", "t", "i", "o", "n", ":">>,
      lines |-> {<<"N", "o", "t", "e", ":", " ", "a">>, <<"1", " ", "2", " ", "3", " ", "K">>, <<"B", "l", "o", "c", "k", " ", "N", "o", "t", "e", ":", " ", "c">>, <<"F", "i", "n", "i", "s", "h", "i", "n", "g", " ", "s", "i", "m", "u", "l", "a", "t", "i", "o", "n">>}],
     [t1 |-> <<"H", "o", "s", "t", "-", "H", "o", "s", "t", ":">>, t2 |-> <<"H", "o", "s", "t", "-", "C", "a", "t", "i", "o", "n", ":">>,
      lines |-> {<<"A", "v", "e", "r", "a", "g", "e", " ", " ", "1", ".", "5", " ", " ", "a", ":", " ", "b", " ", " ", "c", ":", " ", "d">>, <<"A", "v", "e", "r", "a", "g", "e", " ", " ", "1", ".", "5", " ", " ", "a", ":", " ", "b", " ", " ", "c">>, <<"A", "v", "e", "r", "a", "g", "e", " ", " ", "1", " ", " ", "x", " ", " ", "y", ":", " ", "2">>}],
     [t1 |-> <<"T", ":">>, t2 |-> <<"U", ":">>,
      lines |-> {<<"S", "t", "a", "r", "t", "i", "n", "g", " ", "s", "i", "m", "u", "l", "a", "t", "i", "o", "n">>, <<"N", "o", "t", "e", ":", " ", "a">>, <<"B", "l", "o", "c", "k", " ", "F", "i", "n", "i", "s", "h", "i", "n", "g", " ", "s", "i", "m", "u", "l", "a", "t", "i", "o", "n">>}]}

\* The bodies of a section: at most MaxLines lines of a case.
Bodies(c) == UNION {[1..n -> c.lines] : n \in 0..MaxLines}

RuleDocs ==
    UNION {{<<c.t1, <<"=", "=", "=", "=", "=", "=", "=", "=", "=", "=", "=", "=", "=", "=", "=", "=", "=", "=", "=", "=">>>> \o b1
                \o <<c.t2, <<"=", "=", "=", "=", "=", "=", "=", "=", "=", "=", "=", "=", "=", "=", "=", "=", "=", "=", "=", "=">>>> \o b2
                \o <<<<"E", "n", "d", ":">>, <<"=", "=", "=", "=", "=">>>> : b1 \in Bodies(c), b2 \in Bodies(c)}
           : c \in RuleCases}

InitRules == ParseStart(RuleDocs)

SpecRules == InitRules /\ [][NextParse]_vars

\* Texts with a section of at most MaxAdsRows rows, "absolute adsorption:"
\* rows among them, and the title of a next section.
AdsVocab == {<<"a", "b", "s", "o", "l", "u", "t", "e", " ", "a", "d", "s", "o", "r", "p", "t", "i", "o", "n", ":", " ", "1">>, <<"a", " ", "2">>, <<"b">>, <<"=", "=", "=", "=", "=">>}

AdsDocs ==
    {<<<<"T", ":">>, <<"=", "=", "=", "=", "=", "=", "=", "=", "=", "=", "=", "=", "=", "=", "=", "=", "=", "=", "=", "=">>>> \o body \o <<<<"U", ":">>, <<"=", "=", "=", "=", "=">>>> :
        body \in UNION {[1..n -> AdsVocab] : n \in 0..MaxAdsRows}}

InitAdsorption == ParseStart(AdsDocs)

SpecAdsorption == InitAdsorption /\ [][NextParse]_vars

---------------------------------------------------------------------------
(* Properties of the dictionary helpers.                                   *)

\* The items of S whose key matches no key of P ignoring case, in S's order.
Unmatched(P, S) ==
    SelectSeq(S, LAMBDA e : \A i \in 1..Len(P) : lower(P[i][1]) # lower(e[1]))

\* C1: merge_parameters(primary, secondary) keeps primary's keys, casing and
\* order, gives each key matched by a key of secondary (ignoring case) the
\* value secondary holds for it, leaves the other values alone, and appends
\* secondary's unmatched items after them in secondary's order and casing.
C1_MergeOverridesAndAppends ==
    op = "merge" =>
        LET P == pre[a1]
            S == pre[a2]
            R == heap[ret.v]
            U == Unmatched(P, S)
        IN  /\ Len(R) = Len(P) + Len(U)
            /\ \A i \in 1..Len(P) :
                  /\ R[i][1] = P[i][1]
                  /\ \A j \in 1..Len(S) :
                        lower(S[j][1]) = lower(P[i][1]) => R[i][2] = S[j][2]
                  /\ (\A j \in 1..Len(S) : lower(S[j][1]) # lower(P[i][1]))
                        => R[i][2] = P[i][2]
            /\ \A i \in 1..Len(U) : R[Len(P) + i] = U[i]

\* The case of the repository's test: {"a", "b"} merged with {"A", "C"}.
C1_Witness ==
    /\ op = "merge"
    /\ Keys(pre[a1]) = << <<"a">>, <<"b">> >>
    /\ Keys(pre[a2]) = << <<"A">>, <<"C">> >>
    /\ Keys(heap[ret.v]) = << <<"a">>, <<"b">>, <<"C">> >>
    /\ heap[ret.v][1][2] = VInt(3)
    /\ heap[ret.v][2][2] = pre[a1][2][2]

\* C2: merge_parameters leaves primary (and every object that existed
\* before the call) as it was, nested mappings included, and returns an
\* object that did not exist before the call.
C2_MergeLeavesPrimary ==
    op = "merge" =>
        /\ \A id \in DOMAIN pre : heap[id] = pre[id]
        /\ ret.t = "ref"
        /\ ret.v # a1
        /\ ret.v \notin DOMAIN pre

\* A merge that overrides the value of a nested mapping of primary.
C2_Witness ==
    /\ op = "merge"
    /\ \E i \in 1..Len(pre[a1]) :
          /\ pre[a1][i][2].t = "dict"
          /\ heap[ret.v][i][2] = VInt(3)
          /\ heap[a1][i][2].t = "dict"

\* C3: pop_parameter(d, key) deletes from d itself the item whose key equals
\* key ignoring case and returns its value, the other items staying as they
\* were and in their order; with no such item d is unchanged and the result
\* is None, which it is in no other case.  No other object changes.
C3_PopRemovesIgnoringCase ==
    op = "pop" =>
        LET P == pre[a1]
            hit == {i \in 1..Len(P) : lower(P[i][1]) = lower(a2)}
        IN  /\ \A id \in DOMAIN pre : id # a1 => heap[id] = pre[id]
            /\ DOMAIN heap = DOMAIN pre
            /\ heap[a1] = SelectSeq(P, LAMBDA e : lower(e[1]) # lower(a2))
            /\ \A i \in hit : ret = P[i][2]
            /\ (hit = {}) <=> (ret = VNone)
            /\ hit = {} => heap[a1] = P

\* The case of the repository's test: "A" popped from a mapping with "a".
C3_Witness ==
    /\ op = "pop"
    /\ a2 = <<"A">>
    /\ Keys(pre[a1]) = << <<"a">>, <<"b">> >>
    /\ Keys(heap[a1]) = << <<"b">> >>
    /\ ret = pre[a1][1][2]

---------------------------------------------------------------------------
(* Properties of the writer.                                               *)

\* text.splitlines(): the lines of a text, without their newline.
Lines(text) ==
    LET ps == SplitOn(text, NL)
    IN  IF ps[Len(ps)] = <<>> THEN SubSeq(ps, 1, Len(ps) - 1) ELSE ps

\* The number of spaces a line starts with.
LeadingSpaces(line) ==
    IF \A i \in 1..Len(line) : line[i] = SP THEN Len(line)
    ELSE (CHOOSE i \in 1..Len(line) :
             line[i] # SP /\ \A j \in 1..(i - 1) : line[j] = SP) - 1

RECURSIVE PreOrder(_, _)
\* The entries of a tree in the order of their lines, each with its depth.
PreOrder(d, depth) ==
    IF d = <<>> THEN <<>>
    ELSE <<[depth |-> depth, key |-> d[1][1], val |-> d[1][2]]>>
         \o (IF d[1][2].t = "dict" THEN PreOrder(d[1][2].v, depth + 1) ELSE <<>>)
         \o PreOrder(Tail(d), depth)

\* How many times sub occurs in s.
CountOcc(s, sub) == Cardinality({i \in 1..Len(s) : MatchAt(sub, s, i)})

RECURSIVE CountBools(_, _)
\* The number of Booleans equal to b in the values xs, at every depth, a
\* sequence's elements included.
CountBools(xs, b) ==
    IF xs = <<>> THEN 0
    ELSE (CASE xs[1].t = "bool" -> (IF xs[1].v = b THEN 1 ELSE 0)
            [] xs[1].t = "list" -> CountBools(xs[1].v, b)
            [] xs[1].t = "dict" ->
                   CountBools([i \in 1..Len(xs[1].v) |-> xs[1].v[i][2]], b)
            [] OTHER -> 0)
         + CountBools(Tail(xs), b)

RECURSIVE CountStrs(_, _)
\* The number of strings equal to s in the values xs, at every depth.
CountStrs(xs, s) ==
    IF xs = <<>> THEN 0
    ELSE (CASE xs[1].t = "str" -> (IF xs[1].v = s THEN 1 ELSE 0)
            [] xs[1].t = "list" -> CountStrs(xs[1].v, s)
            [] xs[1].t = "dict" ->
                   CountStrs([i \in 1..Len(xs[1].v) |-> xs[1].v[i][2]], s)
            [] OTHER -> 0)
         + CountStrs(Tail(xs), s)

\* The values of a mapping, in order.
Values(d) == [i \in 1..Len(d) |-> d[i][2]]

\* C4: the text written for a tree holds one Yes for each true Boolean of
\* the tree and one No for each false one, whatever their depth, and
\* nowhere True or False.  (A string Yes or No that the tree holds is
\* written as it is.)
C4_BooleansAsYesNo ==
    (op = "write" /\ nwrites = 1) =>
        /\ ~Contains(file.v, sTrue)
        /\ ~Contains(file.v, sFalse)
        /\ CountOcc(file.v, sYes)
               = CountBools(Values(pre[1]), TRUE) + CountStrs(Values(pre[1]), sYes)
        /\ CountOcc(file.v, sNo)
               = CountBools(Values(pre[1]), FALSE) + CountStrs(Values(pre[1]), sNo)

\* C5: the text written has one line for each entry of the tree, in order,
\* and the line of an entry at depth n starts with exactly 4n spaces.
C5_IndentFourPerDepth ==
    op = "write" =>
        LET es == PreOrder(pre[1], 0)
            ls == Lines(file.v)
        IN  /\ Len(ls) = Len(es)
            /\ \A i \in 1..Len(ls) :
                  LeadingSpaces(ls[i]) = Len(Indent) * es[i].depth

\* C7: a second call in a row on the same tree object writes the text the
\* call before it wrote.
C7_SecondWriteSameText == nwrites >= 2 => file = prevFile

\* Two calls on a tree with a false Boolean in a nested mapping.
C7_Witness ==
    /\ nwrites >= 2
    /\ file.t = "str"
    /\ Contains(file.v, Indent \o <<"a", SP>> \o sNo \o <<NL>>)

\* C8: write_simulation_input returns the text it wrote to the file.
C8_ReturnsWrittenText == op = "write" => ret = file

---------------------------------------------------------------------------
(* Properties of parse_output.                                             *)

\* A row that is empty once trimmed, or that holds a decorative run.
Decorative(row) ==
    \/ strip(row) = <<>>
    \/ Contains(row, sDashes)
    \/ Contains(row, sPluses)

\* C6: parse_output returns a result mapping and raises no exception,
\* whatever the text: a line no rule fits, or from which the matched rule
\* takes fewer tokens than it indexes, is tolerated.
C6_ParseNeverRaises ==
    /\ pc # "raised"
    /\ exc = ""
    /\ pc = "done" => ret.t = "dict"

\* The species a Component line names: the text between its brackets.
BracketName(line) ==
    LET o == CHOOSE i \in 1..Len(line) :
                 line[i] = "[" /\ \A j \in 1..(i - 1) : line[j] # "["
        c == CHOOSE i \in (o + 1)..Len(line) :
                 line[i] = "]" /\ \A j \in (o + 1)..(i - 1) : line[j] # "]"
    IN  SubSeq(line, o + 1, c - 1)

\* The lines of the current section that the loop has been through.
Processed == SubSeq(info[sec][2].v, 1, idx - 1)

\* Line k of the section went to the molecule-count rule.
IsMolecule(k) == rule_of(info[sec][1], Processed[k]) = "molecules"

IsComponent(k) == IsMolecule(k) /\ Contains(Processed[k], sComponent)

IsMoleculeData(k) == IsMolecule(k) /\ ~Contains(Processed[k], sComponent)

\* The Component line that line k stands under, 0 when there is none.
OpenedBy(k) ==
    IF \E j \in 1..(k - 1) : IsComponent(j)
        THEN CHOOSE j \in 1..(k - 1) :
                 IsComponent(j) /\ \A m \in (j + 1)..(k - 1) : ~IsComponent(m)
        ELSE 0

\* The tokens of a data line, as the values the parser keeps.
Tokens(k) == clean(split_ws(Processed[k]))

\* The fields that the data lines under Component line j leave behind:
\* one per first token (tokens that compare equal are one), under the
\* token of its first line and with the remaining tokens of its last line.
FieldsUnder(j) ==
    LET ks == {k \in 1..Len(Processed) : IsMoleculeData(k) /\ OpenedBy(k) = j}
        Same(k, m) == KeyEq(Tokens(m)[1], Tokens(k)[1])
        First(k) == CHOOSE f \in ks :
                        Same(k, f) /\ \A m \in ks : m < f => ~Same(k, m)
    IN  {<<Tokens(First(k))[1], VList(Tail(Tokens(k)))>> :
             k \in {k \in ks : \A m \in ks : m > k => ~Same(k, m)}}

\* C9: in a "Number of molecules" section a Component line opens an empty
\* sub-mapping under the bracket-enclosed species name of the line, and each
\* later line that the molecule-count rule handles is stored as
\* {first token: remaining tokens} in the sub-mapping of the species opened
\* last, and in no other.
C9_MoleculeCountStateMachine ==
    (pc \in {"items", "raised"} /\ sec \in 1..Len(info) /\ Contains(info[sec][1], sNumMol)) =>
        /\ \A j \in 1..Len(Processed) :
               (/\ IsComponent(j)
                /\ \A m \in (j + 1)..Len(Processed) :
                       IsComponent(m) => BracketName(Processed[m]) # BracketName(Processed[j]))
               => LET at == IndexOf(sd, VStr(BracketName(Processed[j])))
                  IN  /\ at # 0
                      /\ sd[at][2].t = "dict"
                      /\ {<<e[1], e[2]>> : e \in {sd[at][2].v[i] : i \in DOMAIN sd[at][2].v}}
                             = FieldsUnder(j)
                      /\ Len(sd[at][2].v) = Cardinality(FieldsUnder(j))
        /\ pc = "raised" =>
               LET k == Len(Processed)
               IN  ~(IsMolecule(k) /\ (IsComponent(k) \/ OpenedBy(k) # 0))

\* C10: after the line filter no retained line is empty after trimming and
\* none holds a run '-----' or '+++++'; a text of only such lines yields no
\* section.
C10_FilterDropsBlankAndDecorative ==
    /\ pc \in {"delimiters", "merge"} =>
           \A i \in 1..Len(data) : ~Decorative(data[i])
    /\ (pc = "done" /\ \A i \in 1..Len(rows) : Decorative(rows[i])) =>
           ret.v = <<>>

---------------------------------------------------------------------------
(* Properties of write_input.                                              *)

\* The cutoff of the simulation: the caller's CutOff parameter, under any
\* casing, when there is one, and 12 when there is none.
SimulationCutOff(parameters) ==
    IF IndexOfLower(parameters, sCutOff) # 0
        THEN parameters[IndexOfLower(parameters, sCutOff)][2].v
        ELSE 12

\* C11: when Atoms.info gives no UnitCells, the UnitCells written for the
\* framework is ceil(cutoff / (0.5 * min_distance)) along each axis, with
\* the cutoff of the simulation: the user's CutOff when given, 12 otherwise.
C11_UnitCellsFromCutOff ==
    (op = "write_input" /\ ~atoms.empty /\ IndexOfLower(atoms.info, sUnitCells) = 0) =>
        LET fw == get_parameter(heap[a2], sFramework \o <<" ", "0">>, VNone)
        IN  /\ fw.t = "dict"
            /\ get_parameter(fw.v, sUnitCells, VNone)
                   = VList([i \in 1..3 |->
                               VInt(CeilDiv(2 * SimulationCutOff(pre[1]), atoms.cell[i]))])

---------------------------------------------------------------------------
(* Properties of the sections of parse_output.                             *)

\* A line without the colons at its end.
TrimTrailingColons(line) ==
    IF \A i \in 1..Len(line) : line[i] = ":" THEN <<>>
    ELSE SubSeq(line, 1, CHOOSE i \in 1..Len(line) :
                             line[i] # ":" /\ \A j \in (i + 1)..Len(line) : line[j] = ":")

\* The sections of the text: one for each delimiter but the last.
Sections == 1..(Len(delimiters) - 1)

\* The delimiter of section j has a line before it.
HasTitleLine(j) == delimiters[j] > 1

\* A line without the colons at its two ends.
StripColons(line) ==
    IF \A i \in 1..Len(line) : line[i] = ":" THEN <<>>
    ELSE LET a == CHOOSE i \in 1..Len(line) :
                      line[i] # ":" /\ \A j \in 1..(i - 1) : line[j] = ":"
             b == CHOOSE i \in 1..Len(line) :
                      line[i] # ":" /\ \A j \in (i + 1)..Len(line) : line[j] = ":"
         IN  SubSeq(line, a, b)

\* The title of section j: the line before its delimiter, without the
\* colons at its two ends.
TitleOf(j) == StripColons(data[delimiters[j] - 1])

\* The line before the delimiter of section j, without its trailing colons.
TrailingTitleOf(j) == TrimTrailingColons(data[delimiters[j] - 1])

\* The content of section j: the lines after its delimiter and before the
\* title line of the next delimiter.
ContentOf(j) ==
    [i \in 1..(IF delimiters[j + 1] - delimiters[j] >= 2
                   THEN delimiters[j + 1] - delimiters[j] - 2 ELSE 0)
        |-> data[delimiters[j] + i]]

\* Section j is the last of two or more sections with one title.
LastOfDuplicates(j) ==
    /\ HasTitleLine(j)
    /\ \E m \in Sections : m < j /\ HasTitleLine(m) /\ TitleOf(m) = TitleOf(j)
    /\ \A m \in Sections : m > j => TitleOf(m) # TitleOf(j)

\* The sections have been split off, and the parse is at or past its loop.
Split == pc \in {"section", "items", "done", "raised"}

\* C12: when two or more sections have one title, the result holds exactly
\* one entry for the title, made of the lines of the last such section: the
\* earlier ones contribute nothing, and the split raises no error.
C12_LastDuplicateTitleWins ==
    /\ Split =>
           \A j \in Sections :
               LastOfDuplicates(j) =>
                   /\ Cardinality({e \in DOMAIN info : info[e][1] = TitleOf(j)}) = 1
                   /\ \A e \in DOMAIN info :
                          (info[e][1] = TitleOf(j) /\ info[e][2].t = "lines")
                              => info[e][2].v = ContentOf(j)
    /\ pc = "split" => exc = ""
    /\ pc = "done" =>
           \A j \in Sections :
               LastOfDuplicates(j) =>
                   Cardinality({e \in DOMAIN ret.v : ret.v[e][1] = TitleOf(j)}) = 1

\* C12 witness: two sections with one title and different lines have been
\* split, and the entry of the title holds the lines of the second.
C12_Witness ==
    /\ pc = "section"
    /\ sec = 1
    /\ \E j \in Sections :
           /\ LastOfDuplicates(j)
           /\ \E m \in Sections :
                  m < j /\ HasTitleLine(m) /\ TitleOf(m) = TitleOf(j)
                        /\ ContentOf(m) # ContentOf(j)
           /\ \E e \in DOMAIN info :
                  info[e][1] = TitleOf(j) /\ info[e][2].v = ContentOf(j)

\* C14: with delimiters n_1 < ... < n_k there is one section for each of the
\* first k - 1; its title is the line before the delimiter without its
\* trailing ':', and its content the lines strictly between n_j and n_(j+1)
\* except the line n_(j+1) - 1; lines after n_k are in no section.  (A
\* delimiter that is the first line has no line before it: of its section
\* only the presence is stated.)
C14_SectionSlices ==
    (pc = "section" /\ sec = 1) =>
        /\ Len(info) = Cardinality(Sections)
        /\ \A j \in Sections :
               HasTitleLine(j) =>
                   info[j] = <<TrailingTitleOf(j), VLines(ContentOf(j))>>

\* C14, amended: when the first retained line is not a delimiter, and with
\* the title of a delimiter being the line before it without the ':' at
\* its two ends, there is one section for each distinct title of the first
\* k - 1 delimiters (one for each delimiter when the titles differ); the
\* content of a title's section is the lines strictly between n_j and
\* n_(j+1) except the line n_(j+1) - 1, for the last delimiter n_j of that
\* title; lines after n_k are in no section.
C14_SectionPerTitle ==
    (pc = "section" /\ sec = 1 /\ \A j \in Sections : HasTitleLine(j)) =>
        /\ Len(info) = Cardinality({TitleOf(j) : j \in Sections})
        /\ \A j \in Sections :
               (\A m \in Sections : m > j => TitleOf(m) # TitleOf(j))
                   => \E e \in DOMAIN info :
                          info[e] = <<TitleOf(j), VLines(ContentOf(j))>>
        /\ (\A j, m \in Sections : j # m => TitleOf(j) # TitleOf(m))
               => \A j \in Sections :
                      info[j] = <<TitleOf(j), VLines(ContentOf(j))>>

\* C14 witness: a text with three delimiters has been split into two
\* sections with different titles, the first with a line of content.
C14_Witness ==
    /\ pc = "section"
    /\ sec = 1
    /\ Len(delimiters) = 3
    /\ Len(info) = 2
    /\ HasTitleLine(1)
    /\ ContentOf(1) # <<>>
    /\ info[1] = <<TitleOf(1), VLines(ContentOf(1))>>
    /\ info[2] = <<TitleOf(2), VLines(ContentOf(2))>>
    /\ delimiters[3] < Len(data)

\* C15: a retained line is a delimiter exactly when it contains '=====' and
\* the line before it does not contain "Exclusion constraints energy"; a
\* first line with '=====' has no line before it and is a delimiter.
C15_DelimiterRule ==
    pc = "merge" =>
        \A p \in 1..Len(data) :
            (\E k \in DOMAIN delimiters : delimiters[k] = p)
                <=> /\ Contains(data[p], sEquals)
                    /\ (p = 1 \/ ~Contains(data[p - 1], sExclusion))

---------------------------------------------------------------------------
(* Properties of the rules of parse_output.                                *)

\* A line with one of the sentinels of the Ignore rule.
IsSentinel(line) ==
    \/ Contains(line, sEquals)
    \/ Contains(line, sStarting)
    \/ Contains(line, sFinishing)

\* C13: a section line that contains '=====', 'Starting simulation' or
\* 'Finishing simulation' emits no field, whatever the title of the section
\* and whatever else the line matches: the Ignore rule comes first.
C13_IgnoreRuleFirst ==
    [][(/\ pc = "items"
        /\ idx <= Len(info[sec][2].v)
        /\ IsSentinel(info[sec][2].v[idx]))
           => (sd' = sd /\ exc' = "")]_vars

\* C19: the current species is reset for every section: when the loop over
\* the lines of a section starts, no species is open, so a species of an
\* earlier section is never the target of a later section's data line.
C19_SpeciesResetPerSection ==
    /\ (pc = "items" /\ idx = 1) => gas_name = Unbound
    /\ (pc = "items" /\ gas_name # Unbound) =>
           \E k \in 1..Len(Processed) :
               Contains(Processed[k], sComponent)

\* Line k of the section is a Note line that the desorption rule handled.
IsNote(k) ==
    /\ rule_of(info[sec][1], Processed[k]) = "desorption"
    /\ Contains(Processed[k], sNote)

\* The label of a Note line: the line up to its first run of two or more
\* colons and spaces.
NoteLabel(line) ==
    SubSeq(line, 1,
           (CHOOSE i \in 1..(Len(line) - 1) :
                /\ line[i] \in WhiteChars \cup {":"}
                /\ line[i + 1] \in WhiteChars \cup {":"}
                /\ \A j \in 1..(i - 1) :
                       ~(line[j] \in WhiteChars \cup {":"}
                             /\ line[j + 1] \in WhiteChars \cup {":"})) - 1)

\* C20: in a desorption section the k-th Note line that the desorption rule
\* handles is stored under "<label> k": the counter is 1 when a section
\* starts, goes up by one with each such line, and with no other line.
C20_NoteCounter ==
    pc = "items" =>
        /\ note_index = 1 + Cardinality({k \in 1..Len(Processed) : IsNote(k)})
        /\ \A k \in 1..Len(Processed) :
               IsNote(k) =>
                   IndexOf(sd, VStr(NoteLabel(Processed[k]) \o <<SP>>
                                        \o NatStr(Cardinality({m \in 1..k : IsNote(m)}))))
                       # 0

\* C20 witness: the second desorption section of a text has been through
\* two Note lines, after a first section that had a Note line of its own,
\* and holds them under "Note 1" and "Note 2".
C20_Witness ==
    /\ pc = "items"
    /\ sec = 2
    /\ idx = 3
    /\ IsNote(1)
    /\ IsNote(2)
    /\ note_index = 3
    /\ info[1][2].t = "dict"
    /\ IndexOf(info[1][2].v, VStr(<<"N", "o", "t", "e", " ", "1">>)) # 0
    /\ IndexOf(sd, VStr(<<"N", "o", "t", "e", " ", "1">>)) # 0
    /\ IndexOf(sd, VStr(<<"N", "o", "t", "e", " ", "2">>)) # 0

---------------------------------------------------------------------------
(* Properties of the "absolute adsorption:" pass of parse_output.          *)

\* The retained lines as they were before the pass.
Retained == filter_rows(rows)

\* The pass over the "absolute adsorption:" lines is over.
Merged == pc \notin {"idle", "filter", "delimiters", "merge"}

\* C16: the "absolute adsorption:" pass runs before the delimiters are
\* located, so the delimiters are those of the lines as merged and blanked:
\* a '=====' that the pass moved or blanked counts where it is afterwards.
C16_MergeBeforeDelimiters ==
    pc = "split" =>
        \A p \in 2..Len(data) :
            (\E k \in DOMAIN delimiters : delimiters[k] = p)
                <=> /\ Contains(data[p], sEquals)
                    /\ ~Contains(data[p - 1], sExclusion)

\* Line i of the lines ls holds "absolute adsorption:".
IsAbs(ls, i) == Contains(ls[i], sAbsAds)

\* C17 as stated: for every retained line i with "absolute adsorption:", the
\* pass joins line i with line i+2 and line i+1 with line i+3, and leaves a
\* single space in lines i+1 and i+3.
C17_MergeAlternateLines ==
    pc = "split" =>
        \E ls \in {Retained} :
            \A i \in 1..Len(ls) :
                IsAbs(ls, i) =>
                    /\ i + 3 <= Len(data)
                    /\ \E sep \in {<<>>, <<SP>>, <<SP, SP>>} :
                           data[i] = ls[i] \o sep \o ls[i + 2]
                    /\ data[i + 1] = <<SP>>
                    /\ data[i + 3] = <<SP>>

\* Line i stands clear of the other "absolute adsorption:" lines: three
\* lines follow it, and no line within three lines of it holds the phrase.
StandsClear(ls, i) ==
    /\ i + 3 <= Len(ls)
    /\ \A m \in 1..Len(ls) :
           (m # i /\ m >= i - 3 /\ m <= i + 3) => ~IsAbs(ls, m)

\* C17 amended: for every such line i that stands clear of the others, the
\* pass appends two spaces and line i+1 to line i, appends line i+3 to line
\* i+2, and leaves a single space in lines i+1 and i+3.
C17_MergeFollowingLines ==
    Merged =>
        \E ls \in {Retained} :
            \A i \in 1..Len(ls) :
                (IsAbs(ls, i) /\ StandsClear(ls, i)) =>
                    /\ data[i] = ls[i] \o <<SP, SP>> \o ls[i + 1]
                    /\ data[i + 2] = ls[i + 2] \o ls[i + 3]
                    /\ data[i + 1] = <<SP>>
                    /\ data[i + 3] = <<SP>>

\* C17 witness: the pass is over for a text whose "absolute adsorption:"
\* line is followed by three lines, the first and second of them different.
C17_Witness ==
    /\ pc = "split"
    /\ \E ls \in {Retained} :
           \E i \in 1..Len(ls) :
               /\ IsAbs(ls, i)
               /\ StandsClear(ls, i)
               /\ ls[i + 1] # ls[i + 2]
               /\ data[i] = ls[i] \o <<SP, SP>> \o ls[i + 1]
               /\ data[i + 1] = <<SP>>

\* C18: a line that the pass blanked to a single space is not parsed as an
\* entry: in whichever section it falls it adds no field, not even one with
\* an empty key, and it does not end the parse.
C18_BlankedLinesAddNothing ==
    [][(/\ pc = "items"
        /\ idx <= Len(info[sec][2].v)
        /\ info[sec][2].v[idx] = <<SP>>)
           => (sd' = sd /\ exc' = "")]_vars

---------------------------------------------------------------------------
(* The calculator's construction.                                          *)

\* The parameters of the k-th calculator as they read now: a component that
\* is still the caller's object holds what that object holds.
ParametersOf(k) == deepcopy_local(heap, calcs[k])

\* C21: constructing a Raspa calculator leaves the caller's component dicts
\* unchanged, so two calculators constructed in a row from the same
\* components list have the same parameters, each with the key
\* "Component i MoleculeName <name>" built from the MoleculeName of
\* component i.
C21_ConstructionLeavesComponents ==
    /\ op = "Raspa" => heap = pre
    /\ Len(calcs) >= 2 => ParametersOf(2) = ParametersOf(1)
    /\ \A k \in 1..Len(calcs) : \A i \in 1..Len(pre) :
           IndexOfLower(pre[i], sMoleculeName) # 0 =>
               IndexOfLower(ParametersOf(k),
                   component_key(i - 1, get_parameter(pre[i], sMoleculeName, VNone))) # 0

\* C22: write_simulation_input leaves the parameter tree it is given
\* unchanged: after the call every value of the caller's tree, at every
\* depth, is the value it was before the call (a Boolean is still a
\* Boolean).
C22_WriteLeavesTreeUnchanged == op = "write" => heap[1] = pre[1]

====
